---------------------------- MODULE Spec2Model ----------------------------
(***************************************************************************)
(* Model of scan.c: the barcode scan controller scan(tries) and the        *)
(* keycode translator keymap(code, shift).                                  *)
(*                                                                          *)
(* The controller is a sequential program; pc is its position.  The input  *)
(* source (poll and read on the event device) is the environment: each     *)
(* call returns one of the results the platform can produce.  ops, polls,  *)
(* reads, stdout and stderr record what the program has done so far.       *)
(***************************************************************************)
EXTENDS Integers, Sequences, FiniteSets

\* ---- bounds of the model ------------------------------------------------
\* scan.c:39 defines MAXCODE as 64; the model keeps the code's use of it
\* (capacity MAXCODE-1, index MAXCODE-1 for the terminator) at a small size.
MAXCODE == 3
\* largest try budget handed to scan()
MaxTries == 2
\* number of read() calls that return within one run; a further read blocks
MaxReads == 3

\* ---- linux/input.h values used by scan.c ---------------------------------
EV_KEY == 1
EV_MSC == 4
MSC_SCAN == 4
KEY_ESC == 1
KEY_ENTER == 28
KEY_LEFTSHIFT == 42
KEY_RIGHTSHIFT == 54
KEY_1 == 2
KEY_2 == 3
KEY_3 == 4
KEY_4 == 5
KEY_5 == 6
KEY_6 == 7
KEY_7 == 8
KEY_8 == 9
KEY_9 == 10
KEY_0 == 11
KEY_MINUS == 12
KEY_EQUAL == 13
KEY_Q == 16
KEY_W == 17
KEY_E == 18
KEY_R == 19
KEY_T == 20
KEY_Y == 21
KEY_U == 22
KEY_I == 23
KEY_O == 24
KEY_P == 25
KEY_LEFTBRACE == 26
KEY_RIGHTBRACE == 27
KEY_A == 30
KEY_S == 31
KEY_D == 32
KEY_F == 33
KEY_G == 34
KEY_H == 35
KEY_J == 36
KEY_K == 37
KEY_L == 38
KEY_SEMICOLON == 39
KEY_APOSTROPHE == 40
KEY_GRAVE == 41
KEY_BACKSLASH == 43
KEY_Z == 44
KEY_X == 45
KEY_C == 46
KEY_V == 47
KEY_B == 48
KEY_N == 49
KEY_M == 50
KEY_COMMA == 51
KEY_DOT == 52
KEY_SLASH == 53
KEY_SPACE == 57

\* struct input_event on the 32-bit target: struct timeval (8 bytes), then
\* __u16 type, __u16 code, __s32 value.  A read of n bytes overwrites the
\* first n bytes of keyevent, so a field is new iff n reaches the field's end.
TimeEnd == 8
TypeEnd == 10
CodeEnd == 12
SizeofKeyevent == 16

\* contents of storage the program has not written (char code[MAXCODE] and
\* struct input_event keyevent are uninitialised automatic objects)
Indet == -99

\* ---- keymap (scan.c:55-161) ----------------------------------------------
keymap_shifted(code) ==
    CASE code = KEY_1 -> 33  \* '!'
      [] code = KEY_2 -> 64  \* '@'
      [] code = KEY_3 -> 35  \* '#'
      [] code = KEY_4 -> 36  \* '$'
      [] code = KEY_5 -> 37  \* '%'
      [] code = KEY_6 -> 94  \* '^'
      [] code = KEY_7 -> 38  \* '&'
      [] code = KEY_8 -> 42  \* '*'
      [] code = KEY_9 -> 40  \* '('
      [] code = KEY_0 -> 41  \* ')'
      [] code = KEY_MINUS -> 95  \* '_'
      [] code = KEY_EQUAL -> 43  \* '+'
      [] code = KEY_Q -> 81  \* 'Q'
      [] code = KEY_W -> 87  \* 'W'
      [] code = KEY_E -> 69  \* 'E'
      [] code = KEY_R -> 82  \* 'R'
      [] code = KEY_T -> 84  \* 'T'
      [] code = KEY_Y -> 89  \* 'Y'
      [] code = KEY_U -> 85  \* 'U'
      [] code = KEY_I -> 73  \* 'I'
      [] code = KEY_O -> 79  \* 'O'
      [] code = KEY_P -> 80  \* 'P'
      [] code = KEY_LEFTBRACE -> 123  \* '{'
      [] code = KEY_RIGHTBRACE -> 125  \* '}'
      [] code = KEY_A -> 65  \* 'A'
      [] code = KEY_S -> 83  \* 'S'
      [] code = KEY_D -> 68  \* 'D'
      [] code = KEY_F -> 70  \* 'F'
      [] code = KEY_G -> 71  \* 'G'
      [] code = KEY_H -> 72  \* 'H'
      [] code = KEY_J -> 74  \* 'J'
      [] code = KEY_K -> 75  \* 'K'
      [] code = KEY_L -> 76  \* 'L'
      [] code = KEY_SEMICOLON -> 58  \* ':'
      [] code = KEY_APOSTROPHE -> 34  \* '"'
      [] code = KEY_GRAVE -> 126  \* '~'
      [] code = KEY_BACKSLASH -> 124  \* '|'
      [] code = KEY_Z -> 90  \* 'Z'
      [] code = KEY_X -> 88  \* 'X'
      [] code = KEY_C -> 67  \* 'C'
      [] code = KEY_V -> 86  \* 'V'
      [] code = KEY_B -> 66  \* 'B'
      [] code = KEY_N -> 78  \* 'N'
      [] code = KEY_M -> 77  \* 'M'
      [] code = KEY_COMMA -> 60  \* '<'
      [] code = KEY_DOT -> 62  \* '>'
      [] code = KEY_SLASH -> 63  \* '?'
      [] code = KEY_SPACE -> 32  \* ' '
      [] OTHER -> 0

keymap_unshifted(code) ==
    CASE code = KEY_1 -> 49  \* '1'
      [] code = KEY_2 -> 50  \* '2'
      [] code = KEY_3 -> 51  \* '3'
      [] code = KEY_4 -> 52  \* '4'
      [] code = KEY_5 -> 53  \* '5'
      [] code = KEY_6 -> 54  \* '6'
      [] code = KEY_7 -> 55  \* '7'
      [] code = KEY_8 -> 56  \* '8'
      [] code = KEY_9 -> 57  \* '9'
      [] code = KEY_0 -> 48  \* '0'
      [] code = KEY_MINUS -> 45  \* '-'
      [] code = KEY_EQUAL -> 61  \* '='
      [] code = KEY_Q -> 113  \* 'q'
      [] code = KEY_W -> 119  \* 'w'
      [] code = KEY_E -> 101  \* 'e'
      [] code = KEY_R -> 114  \* 'r'
      [] code = KEY_T -> 116  \* 't'
      [] code = KEY_Y -> 121  \* 'y'
      [] code = KEY_U -> 117  \* 'u'
      [] code = KEY_I -> 105  \* 'i'
      [] code = KEY_O -> 111  \* 'o'
      [] code = KEY_P -> 112  \* 'p'
      [] code = KEY_LEFTBRACE -> 91  \* '['
      [] code = KEY_RIGHTBRACE -> 93  \* ']'
      [] code = KEY_A -> 97  \* 'a'
      [] code = KEY_S -> 115  \* 's'
      [] code = KEY_D -> 100  \* 'd'
      [] code = KEY_F -> 102  \* 'f'
      [] code = KEY_G -> 103  \* 'g'
      [] code = KEY_H -> 104  \* 'h'
      [] code = KEY_J -> 106  \* 'j'
      [] code = KEY_K -> 107  \* 'k'
      [] code = KEY_L -> 108  \* 'l'
      [] code = KEY_SEMICOLON -> 59  \* ';'
      [] code = KEY_APOSTROPHE -> 39  \* '''
      [] code = KEY_GRAVE -> 96  \* '`'
      [] code = KEY_BACKSLASH -> 92  \* '\'
      [] code = KEY_Z -> 122  \* 'z'
      [] code = KEY_X -> 120  \* 'x'
      [] code = KEY_C -> 99  \* 'c'
      [] code = KEY_V -> 118  \* 'v'
      [] code = KEY_B -> 98  \* 'b'
      [] code = KEY_N -> 110  \* 'n'
      [] code = KEY_M -> 109  \* 'm'
      [] code = KEY_COMMA -> 44  \* ','
      [] code = KEY_DOT -> 46  \* '.'
      [] code = KEY_SLASH -> 47  \* '/'
      [] code = KEY_SPACE -> 32  \* ' '
      [] OTHER -> 0

\* keymap with the sense of the case flag inverted
keymap_SwappedShift(code, shift) ==
    IF shift # 0 THEN keymap_unshifted(code) ELSE keymap_shifted(code)

keymap(code, shift) ==
    IF shift # 0 THEN keymap_shifted(code) ELSE keymap_unshifted(code)

\* ---- the input source ----------------------------------------------------
Ev(t, c, v) == [type |-> t, code |-> c, value |-> v]

Press(c) == Ev(EV_KEY, c, 1)
Release(c) == Ev(EV_KEY, c, 0)
Repeat(c) == Ev(EV_KEY, c, 2)

\* the event records the device delivers in the model: presses and releases
\* of a mapped key, an unmapped key, both shift keys and Enter, a key repeat,
\* and a non-key record whose code and value look like a press of KEY_3
Events ==
    { Press(KEY_A), Release(KEY_A), Repeat(KEY_A), Press(KEY_ESC),
      Press(KEY_LEFTSHIFT), Release(KEY_LEFTSHIFT),
      Press(KEY_RIGHTSHIFT), Release(KEY_RIGHTSHIFT),
      Press(KEY_ENTER), Ev(EV_MSC, MSC_SCAN, 1) }

\* poll(): -1 on error, 0 on timeout, 1 descriptor ready
PollResults == {-1, 0, 1}

\* read(): -1 on failure, 0 at end of file, a partial record (the timestamp
\* only), a full record
ReadLens == {-1, 0, TimeEnd, SizeofKeyevent}

Uninit == Ev(Indet, Indet, Indet)

\* the values an uninitialised keyevent can turn out to hold
StackGarbage(ke) == IF ke = Uninit THEN Events ELSE {ke}

\* keyevent after read() stored the first n bytes of record e over old
Overlay(old, e, n) ==
    [type |-> IF n >= TypeEnd THEN e.type ELSE old.type,
     code |-> IF n >= CodeEnd THEN e.code ELSE old.code,
     value |-> IF n >= SizeofKeyevent THEN e.value ELSE old.value]

\* ---- C arithmetic ----------------------------------------------------------
\* int -> size_t (32 bits) as two 16-bit limbs <<high, low>>: x mod 2^32
Limb == 65536
ToSizeT(x) == <<(x \div Limb) % Limb, x % Limb>>
LessSizeT(a, b) == a[1] < b[1] \/ (a[1] = b[1] /\ a[2] < b[2])

\* scan.c:222  readstatus < sizeof(keyevent): int against size_t
ShortRecord(rs) == LessSizeT(ToSizeT(rs), ToSizeT(SizeofKeyevent))

\* scan.c:188  if (err = poll(...)): any non-zero result takes the branch
PollTaken(r) == r # 0

\* LoopCond with the try counter compared off by one
LoopCond_OffByOne(tc, t, e) == tc <= t /\ e = 0

\* LoopCond without the test of err
LoopCond_IgnoreErr(tc, t, e) == tc < t

\* scan.c:184  while (trycount < tries && !err)
LoopCond(tc, t, e) == tc < t /\ e = 0

\* ---- printf("%s\n", code) --------------------------------------------------
\* an indeterminate byte is NUL or not (35 stands for any non-NUL byte)
IndetBytes == {0, 35}
OverrunTails == {<<>>, <<35>>}

\* the byte strings %s can print starting at code[i]: up to the first NUL;
\* an uninitialised cell holds any byte, and past the array anything follows
RECURSIVE CStrings(_, _)
CStrings(cd, i) ==
    IF i > MAXCODE - 1 THEN OverrunTails
    ELSE IF cd[i] = 0 THEN {<<>>}
    ELSE IF cd[i] = Indet
         THEN {<<>>} \cup
              UNION {{<<b>> \o s : s \in CStrings(cd, i + 1)} : b \in IndetBytes \ {0}}
         ELSE {<<cd[i]>> \o s : s \in CStrings(cd, i + 1)}

\* ---- state ----------------------------------------------------------------
VARIABLES
    pc,           \* position in scan(): "while", "poll", "read", "check", "restart", "done"
    tries,        \* the argument of scan()
    trycount, err, readstatus, codecounter, shift,   \* scan.c:175
    code,         \* char code[MAXCODE], indexed 0..MAXCODE-1
    keyevent,     \* struct input_event keyevent
    ops,          \* calls made so far: "HIGH", "LOW", "POLL", "READ", "SLEEP", "PRINTF", "FPRINTF"
    polls,        \* results of the poll() calls so far
    reads,        \* per read() call so far: its result and keyevent after it
    stdout,       \* bytes written to standard output
    stderr,       \* messages written to standard error
    ret,          \* <<>> while running, <<r>> once scan() has returned r
    argv,         \* main's arguments after the program name (argc = Len(argv) + 1)
    ch            \* the value returned by a call of keymap()

vars == <<pc, tries, trycount, err, readstatus, codecounter, shift, code,
          keyevent, ops, polls, reads, stdout, stderr, ret, argv, ch>>

locals == <<trycount, err, readstatus, codecounter, shift, code, keyevent>>

Init ==
    /\ pc = "while"
    /\ tries \in 0..MaxTries
    /\ trycount = 0 /\ err = 0 /\ readstatus = 0 /\ codecounter = 0 /\ shift = 0
    /\ code = [i \in 0..(MAXCODE - 1) |-> Indet]
    /\ keyevent = Uninit
    /\ ops = <<>> /\ polls = <<>> /\ reads = <<>>
    /\ stdout = <<>> /\ stderr = <<>> /\ ret = <<>>
    /\ argv = <<>> /\ ch = 0

\* ---- the body of the read loop (scan.c:197-220) -----------------------------
\* the locals after one pass over keyevent ke, and whether the pass breaks
Locals(cd, cc, sh, b) == [code |-> cd, codecounter |-> cc, shift |-> sh, brk |-> b]

IsShiftKey(c) == c = KEY_LEFTSHIFT \/ c = KEY_RIGHTSHIFT

\* StopScanning without the buffer-filled test
StopScanning_EnterOnly(cc, c) == c = KEY_ENTER

\* StopScanning with the buffer-filled test one position late
StopScanning_LateCapacity(cc, c) == cc = MAXCODE \/ c = KEY_ENTER

\* scan.c:206
StopScanning(cc, c) == cc = MAXCODE - 1 \/ c = KEY_ENTER

\* KeyPress that breaks without storing the terminator
KeyPress_NoTerminator(ke, cd, cc, sh) ==
    IF StopScanning(cc, ke.code)
    THEN Locals(cd, cc, sh, TRUE)
    ELSE IF IsShiftKey(ke.code)
    THEN Locals(cd, cc, 1, FALSE)
    ELSE IF keymap(ke.code, sh) # 0
    THEN Locals([cd EXCEPT ![cc] = keymap(ke.code, sh)], cc + 1, sh, FALSE)
    ELSE Locals(cd, cc, sh, FALSE)

\* KeyPress that translates every key unshifted
KeyPress_IgnoreShift(ke, cd, cc, sh) ==
    IF StopScanning(cc, ke.code)
    THEN Locals([cd EXCEPT ![cc] = 0], cc, sh, TRUE)
    ELSE IF IsShiftKey(ke.code)
    THEN Locals(cd, cc, 1, FALSE)
    ELSE IF keymap(ke.code, 0) # 0
    THEN Locals([cd EXCEPT ![cc] = keymap(ke.code, 0)], cc + 1, sh, FALSE)
    ELSE Locals(cd, cc, sh, FALSE)

\* KeyPress that handles the shift keys before the stop test
KeyPress_ShiftBeforeStop(ke, cd, cc, sh) ==
    IF IsShiftKey(ke.code)
    THEN IF StopScanning(cc, ke.code)
         THEN Locals([cd EXCEPT ![cc] = 0], cc, 1, TRUE)
         ELSE Locals(cd, cc, 1, FALSE)
    ELSE IF StopScanning(cc, ke.code)
    THEN Locals([cd EXCEPT ![cc] = 0], cc, sh, TRUE)
    ELSE IF keymap(ke.code, sh) # 0
    THEN Locals([cd EXCEPT ![cc] = keymap(ke.code, sh)], cc + 1, sh, FALSE)
    ELSE Locals(cd, cc, sh, FALSE)

\* scan.c:204-219
KeyPress(ke, cd, cc, sh) ==
    IF StopScanning(cc, ke.code)
    THEN Locals([cd EXCEPT ![cc] = 0], cc, sh, TRUE)
    ELSE IF IsShiftKey(ke.code)
    THEN Locals(cd, cc, 1, FALSE)
    ELSE IF keymap(ke.code, sh) # 0
    THEN Locals([cd EXCEPT ![cc] = keymap(ke.code, sh)], cc + 1, sh, FALSE)
    ELSE Locals(cd, cc, sh, FALSE)

\* ProcessEvent that clears shift on the release of the left shift key only
ProcessEvent_ReleaseLeftOnly(ke, cd, cc, sh) ==
    IF ke.type = EV_KEY
    THEN IF ke.value = 0 /\ ke.code = KEY_LEFTSHIFT
         THEN Locals(cd, cc, 0, FALSE)
         ELSE IF ke.value = 1
              THEN KeyPress(ke, cd, cc, sh)
              ELSE Locals(cd, cc, sh, FALSE)
    ELSE Locals(cd, cc, sh, FALSE)

\* ProcessEvent without the test of the event type
ProcessEvent_NoTypeCheck(ke, cd, cc, sh) ==
    IF ke.value = 0 /\ IsShiftKey(ke.code)
    THEN Locals(cd, cc, 0, FALSE)
    ELSE IF ke.value = 1
         THEN KeyPress(ke, cd, cc, sh)
         ELSE Locals(cd, cc, sh, FALSE)

\* scan.c:197-220
ProcessEvent(ke, cd, cc, sh) ==
    IF ke.type = EV_KEY
    THEN IF ke.value = 0 /\ IsShiftKey(ke.code)
         THEN Locals(cd, cc, 0, FALSE)
         ELSE IF ke.value = 1
              THEN KeyPress(ke, cd, cc, sh)
              ELSE Locals(cd, cc, sh, FALSE)
    ELSE Locals(cd, cc, sh, FALSE)

\* ---- scan() (scan.c:172-243) ------------------------------------------------
\* scan.c:184-186  loop test passes: turn the scanner on
TryStart ==
    /\ pc = "while"
    /\ LoopCond(trycount, tries, err)
    /\ ops' = Append(ops, "HIGH")
    /\ pc' = "poll"
    /\ UNCHANGED <<argv, ch, tries, locals, polls, reads, stdout, stderr, ret>>

\* scan.c:184, 242  loop test fails: return 0
LoopExit ==
    /\ pc = "while"
    /\ ~LoopCond(trycount, tries, err)
    /\ ret' = <<0>>
    /\ pc' = "done"
    /\ UNCHANGED <<argv, ch, tries, locals, ops, polls, reads, stdout, stderr>>

\* scan.c:188, 228-232  the readiness wait and the branch on its result
Poll ==
    /\ pc = "poll"
    /\ \E r \in PollResults :
        /\ err' = r
        /\ polls' = Append(polls, r)
        /\ IF PollTaken(r)
           THEN /\ ops' = Append(ops, "POLL")
                /\ pc' = "read"
                /\ UNCHANGED <<stderr, ret>>
           ELSE IF r < 0
           THEN /\ ops' = ops \o <<"POLL", "FPRINTF", "LOW">>
                /\ stderr' = Append(stderr, "Error occurred polling")
                /\ ret' = <<-1>>
                /\ pc' = "done"
           ELSE /\ ops' = Append(ops, "POLL")
                /\ pc' = "restart"
                /\ UNCHANGED <<stderr, ret>>
    /\ UNCHANGED <<argv, ch, tries, trycount, readstatus, codecounter, shift, code,
                   keyevent, reads, stdout>>

\* scan.c:189-221  one read() and, if it returned >= 0, one pass of the body
Read ==
    /\ pc = "read"
    /\ Len(reads) < MaxReads
    /\ \E n \in ReadLens, e \in Events, old \in StackGarbage(keyevent) :
        LET ke == IF n < 0 THEN keyevent ELSE Overlay(old, e, n)
            l == ProcessEvent(ke, code, codecounter, shift)
        IN  /\ readstatus' = n
            /\ keyevent' = ke
            /\ reads' = Append(reads, [status |-> n, ev |-> ke])
            /\ IF n >= 0
               THEN /\ code' = l.code
                    /\ codecounter' = l.codecounter
                    /\ shift' = l.shift
                    /\ pc' = IF l.brk THEN "check" ELSE "read"
               ELSE /\ pc' = "check"
                    /\ UNCHANGED <<code, codecounter, shift>>
    /\ ops' = Append(ops, "READ")
    /\ UNCHANGED <<argv, ch, tries, trycount, err, polls, stdout, stderr, ret>>

\* Check that returns on the error branch without driving the pin LOW
Check_NoLowOnError ==
    /\ pc = "check"
    /\ IF ShortRecord(readstatus)
       THEN /\ stderr' = Append(stderr, "Error occurred scanning")
            /\ ops' = Append(ops, "FPRINTF")
            /\ ret' = <<-1>>
            /\ pc' = "done"
            /\ UNCHANGED stdout
       ELSE /\ \E s \in CStrings(code, 0) : stdout' = stdout \o s \o <<10>>
            /\ ops' = Append(ops, "PRINTF")
            /\ pc' = "restart"
            /\ UNCHANGED <<stderr, ret>>
    /\ UNCHANGED <<argv, ch, tries, locals, polls, reads>>

\* scan.c:222-227  after the read loop: report an error or print the code
Check ==
    /\ pc = "check"
    /\ IF ShortRecord(readstatus)
       THEN /\ stderr' = Append(stderr, "Error occurred scanning")
            /\ ops' = ops \o <<"FPRINTF", "LOW">>
            /\ ret' = <<-1>>
            /\ pc' = "done"
            /\ UNCHANGED stdout
       ELSE /\ \E s \in CStrings(code, 0) : stdout' = stdout \o s \o <<10>>
            /\ ops' = Append(ops, "PRINTF")
            /\ pc' = "restart"
            /\ UNCHANGED <<stderr, ret>>
    /\ UNCHANGED <<argv, ch, tries, locals, polls, reads>>

\* Restart that sleeps and counts the try without driving the pin LOW
Restart_NoLow ==
    /\ pc = "restart"
    /\ ops' = Append(ops, "SLEEP")
    /\ trycount' = trycount + 1
    /\ pc' = "while"
    /\ UNCHANGED <<argv, ch, tries, err, readstatus, codecounter, shift, code, keyevent,
                   polls, reads, stdout, stderr, ret>>

\* scan.c:238-240  restart the scanner and count the try
Restart ==
    /\ pc = "restart"
    /\ ops' = ops \o <<"LOW", "SLEEP">>
    /\ trycount' = trycount + 1
    /\ pc' = "while"
    /\ UNCHANGED <<argv, ch, tries, err, readstatus, codecounter, shift, code, keyevent,
                   polls, reads, stdout, stderr, ret>>

\* ---- main() (scan.c:245-254) -----------------------------------------------
INT_MAX == 2147483647

\* longest argument string of the model
MaxArgLen == 3

\* characters of the argument strings: '0', '7', '-', ' ', 'x'
ArgChars == {48, 55, 45, 32, 120}
ArgStrings == UNION {[1..n -> ArgChars] : n \in 0..MaxArgLen}

\* no argument, one argument, two arguments (the second is never read)
ArgLists ==
    {<<>>} \cup {<<s>> : s \in ArgStrings} \cup {<<s, <<120>>>> : s \in ArgStrings}

IsSpace(c) == c = 32 \/ c \in 9..13
IsDigit(c) == c \in 48..57

\* atoi(): skip white space, take an optional sign, then accumulate decimal
\* digits up to the first character that is not one (no digits: 0)
RECURSIVE SkipSpace(_)
SkipSpace(s) == IF s # <<>> /\ IsSpace(Head(s)) THEN SkipSpace(Tail(s)) ELSE s

RECURSIVE Digits(_, _)
Digits(s, acc) ==
    IF s = <<>> \/ ~IsDigit(Head(s)) THEN acc
    ELSE Digits(Tail(s), 10 * acc + (Head(s) - 48))

atoi(s) ==
    LET t == SkipSpace(s)
    IN  IF t # <<>> /\ Head(t) = 45 THEN 0 - Digits(Tail(t), 0)
        ELSE IF t # <<>> /\ Head(t) = 43 THEN Digits(Tail(t), 0)
        ELSE Digits(t, 0)

\* s begins, after white space and an optional sign, with a digit
HasLeadingInteger(s) ==
    LET t == SkipSpace(s)
        u == IF t # <<>> /\ Head(t) \in {43, 45} THEN Tail(t) ELSE t
    IN  u # <<>> /\ IsDigit(Head(u))

\* MainBudget as the interface description has it: unlimited unless the
\* argument parses
MainBudget_UnparsableUnlimited(av) ==
    IF Len(av) + 1 = 2 /\ HasLeadingInteger(av[1]) THEN atoi(av[1]) ELSE INT_MAX

\* scan.c:246-253  the argument main passes to scan(), by argc
MainBudget(av) ==
    CASE Len(av) + 1 = 1 -> INT_MAX
      [] Len(av) + 1 = 2 -> atoi(av[1])
      [] OTHER -> INT_MAX

InitMain ==
    /\ pc = "main"
    /\ argv \in ArgLists
    /\ tries = 0
    /\ trycount = 0 /\ err = 0 /\ readstatus = 0 /\ codecounter = 0 /\ shift = 0
    /\ code = [i \in 0..(MAXCODE - 1) |-> Indet]
    /\ keyevent = Uninit
    /\ ops = <<>> /\ polls = <<>> /\ reads = <<>>
    /\ stdout = <<>> /\ stderr = <<>> /\ ret = <<>>
    /\ ch = 0

\* scan.c:246-253  main calls scan() with the budget
Main ==
    /\ pc = "main"
    /\ tries' = MainBudget(argv)
    /\ pc' = "while"
    /\ UNCHANGED <<argv, ch, locals, ops, polls, reads, stdout, stderr, ret>>

SpecMain == InitMain /\ [][Main]_vars

\* ---- keymap() called on its own (scan.c:215) --------------------------------
\* largest key code handed to keymap() in the model (KEY_SPACE is 57)
MaxKeyCode == 60

InitKeymap ==
    /\ pc = "keymap"
    /\ keyevent \in {Press(c) : c \in 0..MaxKeyCode}
    /\ shift \in {0, 1}
    /\ ch = 0
    /\ tries = 0 /\ argv = <<>>
    /\ trycount = 0 /\ err = 0 /\ readstatus = 0 /\ codecounter = 0
    /\ code = [i \in 0..(MAXCODE - 1) |-> Indet]
    /\ ops = <<>> /\ polls = <<>> /\ reads = <<>>
    /\ stdout = <<>> /\ stderr = <<>> /\ ret = <<>>

\* scan.c:215  keymap(keyevent.code, shift)
Keymap ==
    /\ pc = "keymap"
    /\ ch' = keymap(keyevent.code, shift)
    /\ pc' = "mapped"
    /\ UNCHANGED <<argv, tries, locals, ops, polls, reads, stdout, stderr, ret>>

SpecKeymap == InitKeymap /\ [][Keymap]_vars

Next == TryStart \/ LoopExit \/ Poll \/ Read \/ Check \/ Restart

Spec == Init /\ [][Next]_vars

TypeOK ==
    /\ pc \in {"main", "keymap", "mapped", "while", "poll", "read", "check", "restart", "done"}
    /\ trycount \in 0..MaxTries
    /\ codecounter \in 0..(MAXCODE - 1)
    /\ shift \in {0, 1}
    /\ Len(reads) <= MaxReads

\* ---- vocabulary of the properties -----------------------------------------
Last(s) == s[Len(s)]

IsPrefix(s, t) == Len(s) <= Len(t) /\ SubSeq(t, 1, Len(s)) = s

\* number of occurrences of op among ops[from..Len(ops)]
CountFrom(op, from) == Cardinality({i \in from..Len(ops) : ops[i] = op})

\* position in ops of the k-th read() call
ReadPos(k) ==
    CHOOSE i \in 1..Len(ops) :
        ops[i] = "READ" /\ Cardinality({j \in 1..i : ops[j] = "READ"}) = k

\* number of lines on standard output
Lines(out) == Cardinality({i \in 1..Len(out) : out[i] = 10})

\* the level last driven on SCANPIN
PinWrites == {i \in 1..Len(ops) : ops[i] \in {"HIGH", "LOW"}}

\* the i-th read returned a whole record / fewer bytes than one / failed
FullRead(i) == reads[i].status = SizeofKeyevent
ShortRead(i) == reads[i].status >= 0 /\ reads[i].status < SizeofKeyevent
FailedRead(i) == reads[i].status < 0

AllFull == \A i \in 1..Len(reads) : FullRead(i)

\* what one try does when the readiness wait times out, n times over
TimeoutTries(n) ==
    [i \in 1..(4 * n) |-> <<"HIGH", "POLL", "LOW", "SLEEP">>[((i - 1) % 4) + 1]]

NeverReady == \A i \in 1..Len(polls) : polls[i] = 0

\* the latest readiness wait reported the descriptor ready
Ready == polls # <<>> /\ Last(polls) > 0

\* ---- C1 -------------------------------------------------------------------
\* C1: while every readiness wait so far has timed out, the calls made are a
\* prefix of (HIGH, POLL, LOW, SLEEP) repeated tries times, no read has been
\* made and nothing has been written to stdout or stderr; when scan returns
\* it has made exactly tries waits, each inside that pattern, and returns 0.
C1_RetryExhaustion ==
    NeverReady =>
        /\ IsPrefix(ops, TimeoutTries(tries))
        /\ reads = <<>> /\ stdout = <<>> /\ stderr = <<>>
        /\ pc = "done" =>
              /\ Len(polls) = tries
              /\ ops = TimeoutTries(tries)
              /\ ret = <<0>>

C1_Witness ==
    /\ pc = "done" /\ NeverReady
    /\ tries = MaxTries /\ Len(polls) = MaxTries /\ Len(ops) = 4 * MaxTries

\* ---- C2 -------------------------------------------------------------------
\* C2: after a readiness wait reported ready, a read that returns a short
\* record is the last read of the run; the
\* controller leaves the read loop at once, starts no further try, drives
\* the pin LOW exactly once afterwards, writes one diagnostic to stderr and
\* returns -1.
C2_ShortReadAborts ==
    \A i \in 1..Len(reads) :
        (Ready /\ ShortRead(i)) =>
            /\ i = Len(reads)
            /\ pc \in {"check", "done"}
            /\ CountFrom("HIGH", ReadPos(i)) = 0
            /\ pc = "done" =>
                  /\ ret = <<-1>>
                  /\ Len(stderr) = 1
                  /\ CountFrom("LOW", ReadPos(i)) = 1

\* ---- C3 -------------------------------------------------------------------
\* C3: once a readiness wait has returned a negative value no read is ever
\* attempted: scan has driven the pin LOW, written the polling diagnostic to
\* stderr, printed nothing and returned -1.
C3_PollErrorNoRead ==
    (polls # <<>> /\ Last(polls) < 0) =>
        /\ reads = <<>>
        /\ stdout = <<>>
        /\ stderr = <<"Error occurred polling">>
        /\ Last(ops) = "LOW"
        /\ pc = "done" /\ ret = <<-1>>

\* ---- C4 -------------------------------------------------------------------
\* C4: after a readiness wait reported ready and a read returned a negative
\* result, nothing is printed on
\* stdout, no further try starts, and scan returns -1 having written the
\* scanning diagnostic to stderr and driven the pin LOW.
C4_ReadFailureIsError ==
    (Ready /\ reads # <<>> /\ FailedRead(Len(reads))) =>
        /\ stdout = <<>>
        /\ pc \in {"check", "done"}
        /\ pc = "done" =>
              /\ ret = <<-1>>
              /\ stderr = <<"Error occurred scanning">>
              /\ Last(ops) = "LOW"

\* ---- C5 -------------------------------------------------------------------
\* the buffer is terminated at its current length and has been printed
Finalized == code[codecounter] = 0
Success == Finalized /\ CountFrom("PRINTF", 1) > 0

\* C5: once the finalized buffer has been printed, no step makes a further
\* readiness wait, read or HIGH drive, whatever budget remains, and stdout
\* holds exactly one line.
C5_SuccessStops ==
    /\ [](Success => Lines(stdout) = 1)
    /\ [][Success =>
            /\ polls' = polls
            /\ reads' = reads
            /\ \A i \in 1..Len(ops') : i > Len(ops) => ops'[i] \notin {"HIGH", "POLL", "READ"}]_vars

C5_Witness ==
    /\ pc = "done" /\ Success
    /\ trycount < tries
    /\ ret = <<0>>

\* ---- C6 -------------------------------------------------------------------
HardErrorSeen ==
    \/ \E i \in 1..Len(polls) : polls[i] < 0
    \/ \E i \in 1..Len(reads) : ShortRead(i) \/ FailedRead(i)

\* C6: when scan has returned, the run is one of: success (one line on
\* stdout, nothing on stderr, 0), retry exhaustion (no output, 0), hard error
\* (a diagnostic on stderr, nothing on stdout, -1); and 0 is returned only
\* if no readiness wait failed and no read was short or failed.
C6_ThreeOutcomes ==
    pc = "done" =>
        /\ \/ Lines(stdout) = 1 /\ stderr = <<>> /\ ret = <<0>>
           \/ stdout = <<>> /\ stderr = <<>> /\ ret = <<0>>
           \/ stdout = <<>> /\ stderr # <<>> /\ ret = <<-1>>
        /\ ret = <<0>> => ~HardErrorSeen

\* ---- the records read, and the decoding the properties speak of -----------
Evs == [i \in 1..Len(reads) |-> reads[i].ev]

IsPress(e) == e.type = EV_KEY /\ e.value = 1
IsShiftPress(e) == IsPress(e) /\ IsShiftKey(e.code)
IsShiftRelease(e) == e.type = EV_KEY /\ e.value = 0 /\ IsShiftKey(e.code)
IsEnterPress(e) == IsPress(e) /\ e.code = KEY_ENTER

Max(S) == CHOOSE x \in S : \A y \in S : y <= x

\* ShiftState in effect when the k-th record is read: set by the latest
\* preceding shift press, cleared by the latest preceding shift release
ShiftChanges(k) ==
    {j \in 1..(k - 1) : IsShiftPress(Evs[j]) \/ IsShiftRelease(Evs[j])}
ShiftAt(k) ==
    IF ShiftChanges(k) = {} THEN 0
    ELSE IF IsShiftPress(Evs[Max(ShiftChanges(k))]) THEN 1 ELSE 0

\* the k-th record is a press of a non-shift, non-Enter key that has a mapping
MappedPress(k) ==
    /\ IsPress(Evs[k])
    /\ ~IsShiftKey(Evs[k].code) /\ Evs[k].code # KEY_ENTER
    /\ keymap(Evs[k].code, ShiftAt(k)) # 0

MappedBefore(k) == {j \in 1..(k - 1) : MappedPress(j)}

\* the translations of the mapped presses among records 1..k-1, in order
RECURSIVE DecodedBefore(_)
DecodedBefore(k) ==
    IF k <= 1 THEN <<>>
    ELSE IF MappedPress(k - 1)
         THEN Append(DecodedBefore(k - 1), keymap(Evs[k - 1].code, ShiftAt(k - 1)))
         ELSE DecodedBefore(k - 1)

\* the k-th record is the mapped press that brings the buffer to MAXCODE-1
\* characters, with no Enter press read so far
FillsBuffer(k) ==
    /\ MappedPress(k)
    /\ Cardinality(MappedBefore(k)) = MAXCODE - 2
    /\ \A j \in 1..k : ~IsEnterPress(Evs[j])

\* the characters accumulated in code[0..codecounter-1]
Accumulated == [i \in 1..codecounter |-> code[i - 1]]

\* ---- C7 -------------------------------------------------------------------
\* C7 as stated: after a readiness wait reported ready, once the
\* (MAXCODE-1)-th mapped press has been read (all records full, no Enter),
\* the buffer is finalized and the read loop is left, that press being the
\* last record read.
C7_FillFinalizesAtOnce ==
    \A k \in 1..Len(reads) :
        (Ready /\ AllFull /\ FillsBuffer(k)) =>
            /\ Finalized
            /\ pc # "read"
            /\ k = Len(reads)

\* C7 amended: after the (MAXCODE-1)-th mapped press the controller keeps
\* reading with the buffer not yet finalized; the first key press read after
\* it, of any key, is the last record read, finalizes the buffer holding
\* exactly those MAXCODE-1 characters, and the try prints them.
C7_FillFinalizesOnNextPress ==
    \A k \in 1..Len(reads) :
        (AllFull /\ FillsBuffer(k)) =>
            LET later == {j \in (k + 1)..Len(reads) : IsPress(Evs[j])}
            IN  IF later = {}
                THEN /\ pc = "read" /\ codecounter = MAXCODE - 1
                     /\ ~Finalized /\ stdout = <<>>
                ELSE /\ later = {Len(reads)}
                     /\ pc # "read" /\ codecounter = MAXCODE - 1
                     /\ Finalized
                     /\ CStrings(code, 0) = {DecodedBefore(k + 1)}
                     /\ pc # "check" =>
                           Success /\ stdout = DecodedBefore(k + 1) \o <<10>>

C7_Witness ==
    /\ AllFull
    /\ \E k \in 1..Len(reads) : FillsBuffer(k)
    /\ \A j \in 1..Len(reads) : ~IsEnterPress(Evs[j])
    /\ pc = "done" /\ ret = <<0>>
    /\ Len(stdout) = MAXCODE

\* ---- C8 -------------------------------------------------------------------
\* the step reads a full record that is a Key-class press of Enter
EnterRead ==
    /\ pc = "read" /\ Len(reads') = Len(reads) + 1
    /\ Last(reads').status = SizeofKeyevent
    /\ Last(reads').ev = Press(KEY_ENTER)

\* C8: reading a full Enter press leaves the read loop in that step, at any
\* buffer length and either ShiftState, with the buffer terminated so that it
\* reads as exactly the characters accumulated before the press; that string
\* (empty at length 0) is what is then printed, and nothing goes to stderr.
C8_EnterFinalizes ==
    /\ [][EnterRead =>
            /\ pc' = "check"
            /\ codecounter' = codecounter /\ shift' = shift
            /\ CStrings(code', 0) = {Accumulated}]_vars
    /\ []((/\ reads # <<>> /\ FullRead(Len(reads))
           /\ Last(reads).ev = Press(KEY_ENTER)
           /\ pc \notin {"read", "check"})
          => stdout = Accumulated \o <<10>> /\ stderr = <<>>)

C8_Witness ==
    /\ reads # <<>> /\ FullRead(Len(reads)) /\ Last(reads).ev = Press(KEY_ENTER)
    /\ codecounter = 0 /\ shift = 1
    /\ pc = "done" /\ stdout = <<10>>

\* ---- C9 -------------------------------------------------------------------
AllKeyClass == \A i \in 1..Len(reads) : Evs[i].type = EV_KEY

ProcessedRead == Len(reads') = Len(reads) + 1 /\ Last(reads').status >= 0

\* C10 as stated: shift is 0 until the first read; after a readiness wait
\* reported ready and while every record read is full, a shift press sets
\* it, a shift release clears it, and nothing else changes it.
C10_ShiftToggling ==
    /\ [](reads = <<>> => shift = 0)
    /\ [][(Ready /\ AllFull') =>
            IF ProcessedRead /\ IsShiftPress(Last(reads').ev) THEN shift' = 1
            ELSE IF ProcessedRead /\ IsShiftRelease(Last(reads').ev) THEN shift' = 0
            ELSE shift' = shift]_vars

\* C10 amended: shift is 0 until the first read; of the records the read
\* loop processes, a shift press read while fewer than MAXCODE-1 characters
\* are accumulated sets shift, a shift release clears it, and no other
\* record or step changes it (a shift press read at capacity finalizes the
\* buffer and leaves shift as it was).
C10_ShiftTogglingBelowCapacity ==
    /\ [](reads = <<>> => shift = 0)
    /\ [][IF /\ ProcessedRead /\ IsShiftPress(Last(reads').ev)
             /\ codecounter < MAXCODE - 1
          THEN shift' = 1
          ELSE IF ProcessedRead /\ IsShiftRelease(Last(reads').ev) THEN shift' = 0
          ELSE shift' = shift]_vars

\* both shift keys pressed, then one released: shift is clear
C10_Witness ==
    /\ AllFull
    /\ Evs = <<Press(KEY_LEFTSHIFT), Press(KEY_RIGHTSHIFT), Release(KEY_LEFTSHIFT)>>
    /\ shift = 0 /\ pc = "read"

\* ---- C11 ------------------------------------------------------------------
\* s is an optional sign followed by one or more digits, and nothing else
IsDecimal(s) ==
    LET u == IF s # <<>> /\ Head(s) \in {43, 45} THEN Tail(s) ELSE s
    IN  u # <<>> /\ \A i \in 1..Len(u) : IsDigit(u[i])

\* the number a string of digits denotes
RECURSIVE DigitsValue(_)
DigitsValue(d) ==
    IF d = <<>> THEN 0
    ELSE 10 * DigitsValue(SubSeq(d, 1, Len(d) - 1)) + (d[Len(d)] - 48)

DecimalValue(s) ==
    IF Head(s) = 45 THEN 0 - DigitsValue(Tail(s))
    ELSE IF Head(s) = 43 THEN DigitsValue(Tail(s))
    ELSE DigitsValue(s)

\* C11 as stated: with no argument, or with one argument that does not begin
\* with an integer, scan() is called with INT_MAX; with one argument that is
\* a decimal integer n it is called with n.
C11_UnparsableIsUnlimited ==
    pc # "main" =>
        /\ Len(argv) = 0 => tries = INT_MAX
        /\ (Len(argv) = 1 /\ ~HasLeadingInteger(argv[1])) => tries = INT_MAX
        /\ (Len(argv) = 1 /\ IsDecimal(argv[1])) => tries = DecimalValue(argv[1])

\* C11 amended: with no argument or more than one, scan() is called with
\* INT_MAX; with exactly one argument that is a decimal integer n it is
\* called with n; with exactly one argument that does not begin with an
\* integer it is called with 0.
C11_BudgetFromArgs ==
    pc # "main" =>
        /\ Len(argv) # 1 => tries = INT_MAX
        /\ (Len(argv) = 1 /\ IsDecimal(argv[1])) => tries = DecimalValue(argv[1])
        /\ (Len(argv) = 1 /\ ~HasLeadingInteger(argv[1])) => tries = 0

\* scan x: the budget is 0
C11_Witness ==
    /\ pc = "while"
    /\ argv = <<<<120>>>>
    /\ tries = 0

\* ---- C12 ------------------------------------------------------------------
\* C12: codecounter stays within 0..MAXCODE-1 and code keeps its MAXCODE
\* cells; the cells below codecounter hold the appended characters, the cell
\* at codecounter is untouched or holds the terminator, and no cell above it
\* has been written: every write was at an index in 0..MAXCODE-1.
C12_BufferBound ==
    /\ codecounter \in 0..(MAXCODE - 1)
    /\ DOMAIN code = 0..(MAXCODE - 1)
    /\ \A i \in 0..(MAXCODE - 1) :
          /\ i < codecounter => code[i] \in 32..126
          /\ i = codecounter => code[i] \in {Indet, 0}
          /\ i > codecounter => code[i] = Indet

\* the terminator stored in the last cell, in a run with a short read
C12_Witness ==
    /\ codecounter = MAXCODE - 1
    /\ code[MAXCODE - 1] = 0
    /\ \E i \in 1..Len(reads) : ShortRead(i)

\* ---- C13 ------------------------------------------------------------------
LetterKeys ==
    <<KEY_A, KEY_B, KEY_C, KEY_D, KEY_E, KEY_F, KEY_G, KEY_H, KEY_I, KEY_J,
      KEY_K, KEY_L, KEY_M, KEY_N, KEY_O, KEY_P, KEY_Q, KEY_R, KEY_S, KEY_T,
      KEY_U, KEY_V, KEY_W, KEY_X, KEY_Y, KEY_Z>>

TableKeys ==
    {LetterKeys[i] : i \in 1..26} \cup
    {KEY_1, KEY_2, KEY_3, KEY_4, KEY_5, KEY_6, KEY_7, KEY_8, KEY_9, KEY_0,
     KEY_MINUS, KEY_EQUAL, KEY_LEFTBRACE, KEY_RIGHTBRACE, KEY_SEMICOLON,
     KEY_APOSTROPHE, KEY_GRAVE, KEY_BACKSLASH, KEY_COMMA, KEY_DOT, KEY_SLASH,
     KEY_SPACE}

\* C13: every character 33..126 is keymap(k, s) for exactly one key code k
\* and case flag s; the i-th letter key returns the i-th lowercase letter
\* unshifted and the i-th uppercase letter shifted; a key code outside the
\* table, the shift keys and Enter among them, returns 0 for either flag.
C13_KeymapCoverage ==
    /\ \A c \in 33..126 :
          Cardinality({p \in (0..MaxKeyCode) \X {0, 1} : keymap(p[1], p[2]) = c}) = 1
    /\ pc = "mapped" =>
          /\ \A i \in 1..26 :
                keyevent.code = LetterKeys[i] =>
                    ch = (IF shift = 0 THEN 96 ELSE 64) + i
          /\ keyevent.code \notin TableKeys => ch = 0
          /\ keyevent.code \in {KEY_LEFTSHIFT, KEY_RIGHTSHIFT, KEY_ENTER} => ch = 0

C13_Witness ==
    /\ pc = "mapped"
    /\ keyevent.code = KEY_A /\ shift = 1
    /\ ch = 65

\* ---- C14 ------------------------------------------------------------------
\* the level last driven on SCANPIN before position i of ops
PinBefore(i) ==
    LET w == {j \in PinWrites : j < i}
    IN  IF w = {} THEN "NONE" ELSE ops[Max(w)]

PinNow == PinBefore(Len(ops) + 1)

\* C14: the pin is HIGH at every poll() and read() call and while the
\* controller is at one; when scan returns after retry exhaustion with at
\* least one try, or after a failed readiness wait or a short or failed
\* read, the level last driven is LOW.
C14_EnableDiscipline ==
    /\ \A i \in 1..Len(ops) : ops[i] \in {"POLL", "READ"} => PinBefore(i) = "HIGH"
    /\ pc \in {"poll", "read"} => PinNow = "HIGH"
    /\ (pc = "done" /\ (HardErrorSeen \/ (NeverReady /\ tries > 0))) => PinNow = "LOW"

\* the event-read error exit
C14_Witness ==
    /\ pc = "done" /\ ret = <<-1>>
    /\ Ready /\ stderr = <<"Error occurred scanning">>
    /\ PinNow = "LOW"

\* ---- C15 ------------------------------------------------------------------
PrintfPos == CHOOSE i \in 1..Len(ops) : ops[i] = "PRINTF"

\* C15 as stated: after the finalized buffer is printed no LOW is driven, and
\* the pin is HIGH when scan has returned.
C15_SuccessLeavesPinHigh ==
    Success =>
        /\ CountFrom("LOW", PrintfPos) = 0
        /\ pc = "done" => PinNow = "HIGH"

\* C15 amended: after the finalized buffer is printed the controller drives
\* the pin LOW once, sleeps and counts the try, and only then returns 0;
\* no HIGH is driven after the print, and the pin is LOW at the return.
C15_SuccessLowersPin ==
    Success =>
        \/ pc = "restart" /\ Last(ops) = "PRINTF" /\ PinNow = "HIGH" /\ ret = <<>>
        \/ /\ pc \in {"while", "done"}
           /\ SubSeq(ops, PrintfPos, Len(ops)) = <<"PRINTF", "LOW", "SLEEP">>
           /\ PinNow = "LOW"
           /\ pc = "done" => ret = <<0>>

C15_Witness ==
    /\ Success /\ pc = "done" /\ ret = <<0>>
    /\ tries = 1
    /\ PinNow = "LOW"

\* ---- C16 ------------------------------------------------------------------
\* C16: every readiness wait but the last timed out; every read() comes
\* after the last poll(), so one try at most reads; and when a try enters
\* the read loop no record has been read and the buffer is empty.
C16_OneTryReads ==
    /\ \A i \in 1..(Len(polls) - 1) : polls[i] = 0
    /\ \A i, j \in 1..Len(ops) : (ops[i] = "READ" /\ ops[j] = "POLL") => j < i
    /\ (pc = "read" /\ Last(ops) = "POLL") =>
          /\ reads = <<>>
          /\ codecounter = 0
          /\ \A i \in 0..(MAXCODE - 1) : code[i] = Indet

\* the second try enters the read loop
C16_Witness ==
    /\ pc = "read" /\ Last(ops) = "POLL"
    /\ trycount = 1 /\ Len(polls) = 2
    /\ codecounter = 0

\* ---- C17 ------------------------------------------------------------------
\* a record the loop body is to ignore, given the locals before it is read
IgnoredRecord(e) ==
    \/ e.type # EV_KEY
    \/ e.type = EV_KEY /\ e.value = 0 /\ ~IsShiftKey(e.code)
    \/ e.type = EV_KEY /\ e.value = 2
    \/ /\ IsPress(e) /\ ~IsShiftKey(e.code) /\ e.code # KEY_ENTER
       /\ keymap(e.code, shift) = 0
       /\ codecounter < MAXCODE - 1

\* C17: a step that reads and processes a non-Key record, a release of a
\* non-shift key, a key repeat, or (below capacity) a press of an unmapped
\* key other than shift and Enter leaves code, codecounter and shift as
\* they were, writes nothing, and stays in the read loop of the same try.
C17_IgnoredEvents ==
    [][(pc = "read" /\ ProcessedRead /\ IgnoredRecord(Last(reads').ev)) =>
         /\ code' = code /\ codecounter' = codecounter /\ shift' = shift
         /\ stdout' = stdout /\ stderr' = stderr
         /\ pc' = "read" /\ trycount' = trycount /\ ret' = ret]_vars

C17_Witness ==
    /\ AllFull
    /\ Evs = <<Ev(EV_MSC, MSC_SCAN, 1), Repeat(KEY_A), Press(KEY_ESC)>>
    /\ pc = "read" /\ codecounter = 0 /\ shift = 0
    /\ stdout = <<>>

\* ---- C18 ------------------------------------------------------------------
NoEnterRead == \A j \in 1..Len(reads) : ~IsEnterPress(Evs[j])

\* C18: with MAXCODE-1 characters accumulated, a step that processes a key
\* press of any key leaves the read loop with the buffer terminated after
\* exactly those characters, codecounter and shift unchanged; and after
\* MAXCODE or more mapped presses and no Enter, all in full records, the line
\* printed is the translations of the first MAXCODE-1 of them.
C18_CapacityTruncation ==
    /\ [][(/\ pc = "read" /\ ProcessedRead
           /\ IsPress(Last(reads').ev)
           /\ codecounter = MAXCODE - 1) =>
            /\ pc' = "check"
            /\ codecounter' = codecounter /\ shift' = shift
            /\ CStrings(code', 0) = {Accumulated}]_vars
    /\ []((/\ AllFull /\ NoEnterRead
           /\ Cardinality({k \in 1..Len(reads) : MappedPress(k)}) >= MAXCODE
           /\ pc \notin {"read", "check"})
          => /\ MappedPress(Len(reads))
             /\ Len(DecodedBefore(Len(reads))) = MAXCODE - 1
             /\ stdout = DecodedBefore(Len(reads)) \o <<10>>)

\* MAXCODE presses of KEY_A print MAXCODE-1 times 'a'
C18_Witness ==
    /\ AllFull /\ Len(reads) = MAXCODE
    /\ \A k \in 1..Len(reads) : Evs[k] = Press(KEY_A)
    /\ pc = "done"
    /\ stdout = [i \in 1..(MAXCODE - 1) |-> 97] \o <<10>>

\* ---- C19 ------------------------------------------------------------------
\* C19: after a readiness wait reported ready, whenever printf has been
\* called the buffer is terminated at its current length.
C19_PrintedIsFinalized ==
    (Ready /\ CountFrom("PRINTF", 1) > 0) => Finalized

\* ---- C20 ------------------------------------------------------------------
\* C20: after a readiness wait reported ready, a read that does not deliver
\* a full record does not leave the controller in the read loop with its
\* locals as they were (were it so, the same read would repeat without end
\* and scan would never return).
C20_NonFullReadEndsLoop ==
    [][(/\ Ready /\ pc = "read"
        /\ Len(reads') = Len(reads) + 1
        /\ Last(reads').status # SizeofKeyevent) =>
         \/ pc' # "read"
         \/ <<code, codecounter, shift, keyevent>>' #
              <<code, codecounter, shift, keyevent>>]_vars

=============================================================================
